---- MODULE Spec2Model ----
(***************************************************************************)
(* Practicons: extraction of structured data from scanned construction     *)
(* estimates.  Texts are sequences of one-character strings, so that the   *)
(* substring searches, splits and trims of the Python source are computed  *)
(* character by character.  Offsets are 0-based, as in Python.             *)
(***************************************************************************)
EXTENDS Integers, Sequences, FiniteSets, TLC

VARIABLES
    pc,              \* position of the running method
    text_content,    \* PDFProcessor.text_content
    sec_i,           \* _extract_sections: index of section_name in the outer loop
    sections,        \* _extract_sections: local dict name -> section_text
    spans,           \* _extract_sections: start_idx / next_section_idx per section
    lines,           \* _extract_metadata: text_content.split('\n')
    line_i,          \* _extract_metadata: index of line in the loop
    metadata,        \* _extract_metadata: local dict field -> value
    extracted_data,  \* PDFProcessor.extracted_data
    use_ai,          \* AIExtractor.use_ai
    langchain,       \* whether the langchain imports of enhance_extraction succeed
    result,          \* the outcome of the service call: an exception or the text
    enhanced_data,   \* what enhance_extraction returned
    ai_error,        \* _apply_ai_extraction caught and logged an exception
    local_data,      \* extracted_data as it was before the enhancement step
    row_data,        \* ExcelExporter._create_proyecto_sheet: row 2 of the sheet
    pages,           \* PDFProcessor.pages: the page images
    page_i,          \* _extract_tables: the index i of the loop over the pages
    tables,          \* _extract_tables: the local list of table records
    log,             \* the errors reported through logger.error
    cells,           \* _sort_cells: the argument, a list of (x, y, w, h)
    y_i,             \* _sort_cells: index into y_coords of the loop
    rows,            \* _sort_cells: the local list of rows
    arg_text,        \* clean_text / extract_currency: the argument text
    clean_out,       \* what clean_text returned
    currency_out,    \* what extract_currency returned
    docs,            \* main: pdf_files, the documents of the input directory
    doc_i,           \* main: index of pdf_path in the loop
    attempts,        \* main: the documents whose processing was started
    files,           \* the export files written to the output directory
    ocr_out,         \* what pytesseract.image_to_string does on each page, in order
    ocr_i,           \* _extract_text_from_images: the index i of the loop
    full_text        \* _extract_text_from_images: the local list of page texts

sectVars == <<sec_i, sections, spans>>
metaVars == <<lines, line_i, metadata>>
aiVars == <<use_ai, langchain, result, enhanced_data, ai_error, local_data, row_data>>
tblVars == <<pages, page_i, tables>>
gridVars == <<cells, y_i, rows>>
txtVars == <<arg_text, clean_out, currency_out>>
mainVars == <<docs, doc_i, attempts, files>>
ocrVars == <<ocr_out, ocr_i, full_text>>
utilVars == <<tblVars, gridVars, txtVars, mainVars, ocrVars, log>>
vars == <<pc, text_content, sec_i, sections, spans, lines, line_i, metadata,
          extracted_data, use_ai, langchain, result, enhanced_data, ai_error,
          local_data, row_data, pages, page_i, tables, log, cells, y_i, rows,
          arg_text, clean_out, currency_out, docs, doc_i, attempts, files,
          ocr_out, ocr_i, full_text>>

(***************************************************************************)
(* Bounds of the model                                                     *)
(***************************************************************************)
MaxPieces == 4
MaxLines == 2
MaxResp == 3

(***************************************************************************)
(* Python str and dict primitives                                          *)
(***************************************************************************)
\* float('inf') of _extract_sections: larger than every offset
Inf == 999999

UpperChars ==
    {"A","B","C","D","E","F","G","H","I","J","K","L","M","N","O","P","Q","R",
     "S","T","U","V","W","X","Y","Z","Á","É","Í","Ó","Ú","Ñ"}

LowerMap ==
    "A" :> "a" @@ "B" :> "b" @@ "C" :> "c" @@ "D" :> "d" @@ "E" :> "e" @@
    "F" :> "f" @@ "G" :> "g" @@ "H" :> "h" @@ "I" :> "i" @@ "J" :> "j" @@
    "K" :> "k" @@ "L" :> "l" @@ "M" :> "m" @@ "N" :> "n" @@ "O" :> "o" @@
    "P" :> "p" @@ "Q" :> "q" @@ "R" :> "r" @@ "S" :> "s" @@ "T" :> "t" @@
    "U" :> "u" @@ "V" :> "v" @@ "W" :> "w" @@ "X" :> "x" @@ "Y" :> "y" @@
    "Z" :> "z" @@ "Á" :> "á" @@ "É" :> "é" @@ "Í" :> "í" @@ "Ó" :> "ó" @@
    "Ú" :> "ú" @@ "Ñ" :> "ñ"

\* str.lower()
Lower(s) == [i \in 1..Len(s) |-> IF s[i] \in UpperChars THEN LowerMap[s[i]] ELSE s[i]]

\* s[a:b]
Slice(s, a, b) == SubSeq(s, a + 1, b)

\* s.find(sub, start): lowest offset >= start at which sub occurs, else -1
RECURSIVE Find(_, _, _)
Find(s, sub, start) ==
    IF start + Len(sub) > Len(s) THEN -1
    ELSE IF Slice(s, start, start + Len(sub)) = sub THEN start
    ELSE Find(s, sub, start + 1)

\* sub in s
In(sub, s) == Find(s, sub, 0) # -1

WhiteSpace == {" ", "\n", "\t"}

\* s.lstrip(), s.rstrip(), s.strip()
RECURSIVE LStrip(_)
LStrip(s) == IF s # <<>> /\ Head(s) \in WhiteSpace THEN LStrip(Tail(s)) ELSE s

RECURSIVE RStrip(_)
RStrip(s) ==
    IF s # <<>> /\ s[Len(s)] \in WhiteSpace THEN RStrip(SubSeq(s, 1, Len(s) - 1)) ELSE s

Strip(s) == RStrip(LStrip(s))

\* s.split(sep): the segments of s between the occurrences of the character sep
RECURSIVE Split(_, _)
Split(s, sep) ==
    IF \A i \in 1..Len(s) : s[i] # sep THEN <<s>>
    ELSE LET i == CHOOSE j \in 1..Len(s) : s[j] = sep /\ \A h \in 1..(j - 1) : s[h] # sep
         IN  <<SubSeq(s, 1, i - 1)>> \o Split(SubSeq(s, i + 1, Len(s)), sep)

\* s.split(sep, 1): s cut at the first occurrence of the character sep
Split1(s, sep) ==
    IF \A i \in 1..Len(s) : s[i] # sep THEN <<s>>
    ELSE LET i == CHOOSE j \in 1..Len(s) : s[j] = sep /\ \A h \in 1..(j - 1) : s[h] # sep
         IN  <<SubSeq(s, 1, i - 1), SubSeq(s, i + 1, Len(s))>>

\* s.replace(old, "") for a character old
Remove(s, old) == SelectSeq(s, LAMBDA c : c # old)

\* "\n".join(parts)
RECURSIVE JoinLines(_)
JoinLines(parts) ==
    IF parts = <<>> THEN <<>>
    ELSE IF Len(parts) = 1 THEN parts[1]
    ELSE parts[1] \o <<"\n">> \o JoinLines(Tail(parts))

\* A dict is the sequence of its <<key, value>> items in insertion order.
DictKeys(d) == {d[i][1] : i \in 1..Len(d)}

DictHas(d, k) == k \in DictKeys(d)

\* d[k] for a key that is present
DictGet(d, k) == d[CHOOSE i \in 1..Len(d) : d[i][1] = k][2]

\* d[k] = v
DictSet(d, k, v) ==
    IF DictHas(d, k)
    THEN [i \in 1..Len(d) |-> IF d[i][1] = k THEN <<k, v>> ELSE d[i]]
    ELSE Append(d, <<k, v>>)

(***************************************************************************)
(* config.py                                                               *)
(***************************************************************************)
ESTIMATE_SECTIONS ==
    << <<"P","r","e","l","i","m","i","n","a","r","e","s">>,
       <<"C","i","m","e","n","t","a","c","i","ó","n">>,
       <<"E","s","t","r","u","c","t","u","r","a">>,
       <<"A","l","b","a","ñ","i","l","e","r","í","a">>,
       <<"I","n","s","t","a","l","a","c","i","o","n","e","s">>,
       <<"A","c","a","b","a","d","o","s">>,
       <<"C","a","r","p","i","n","t","e","r","í","a">>,
       <<"H","e","r","r","e","r","í","a">>,
       <<"V","i","d","r","i","o","s"," ","y"," ","C","r","i","s","t","a","l","e","s">>,
       <<"P","i","n","t","u","r","a">>,
       <<"O","b","r","a","s"," ","E","x","t","e","r","i","o","r","e","s">>,
       <<"L","i","m","p","i","e","z","a">> >>

(***************************************************************************)
(* PDFProcessor.__init__                                                   *)
(***************************************************************************)
InitExtractedData ==
    [metadata |-> <<>>, sections |-> <<>>, tables |-> <<>>, summary |-> <<>>]

\* the json.loads value of the text "{}"
EmptyDict == [kind |-> "dict", items |-> <<>>]

\* no service call has been made
NoResult == [raised |-> FALSE, text |-> <<>>]

\* the enhancement and export state while another method is running
AiIdle ==
    /\ use_ai = FALSE
    /\ langchain = FALSE
    /\ result = NoResult
    /\ enhanced_data = EmptyDict
    /\ ai_error = FALSE
    /\ local_data = InitExtractedData
    /\ row_data = <<>>

\* no table has been looked for
TblIdle ==
    /\ pages = <<>>
    /\ page_i = 0
    /\ tables = <<>>

\* _sort_cells has not been called
GridIdle ==
    /\ cells = <<>>
    /\ y_i = 0
    /\ rows = <<>>

\* clean_text and extract_currency have not been called
NoneValue == [kind |-> "None", whole |-> <<>>, frac |-> <<>>]

TxtIdle ==
    /\ arg_text = <<>>
    /\ clean_out = <<>>
    /\ currency_out = NoneValue

\* main is not running
MainIdle ==
    /\ docs = <<>>
    /\ doc_i = 0
    /\ attempts = <<>>
    /\ files = {}

\* no page has been read
OcrIdle ==
    /\ ocr_out = <<>>
    /\ ocr_i = 0
    /\ full_text = <<>>

\* the table and utility state while another method is running
UtilIdle ==
    /\ TblIdle
    /\ GridIdle
    /\ TxtIdle
    /\ MainIdle
    /\ OcrIdle
    /\ log = <<>>

(***************************************************************************)
(* PDFProcessor._extract_sections                                          *)
(***************************************************************************)
\* (variant: the membership test compares case-sensitively)
SectionFound_CaseSensitive(section_name, text) == In(section_name, text)

\* if section_name.lower() in text.lower()
SectionFound(section_name, text) == In(Lower(section_name), Lower(text))

\* (variant: the search starts at the section's own offset)
NextSectionFind_FromStart(text, next_section, section_name, start_idx) ==
    Find(Lower(text), Lower(next_section), start_idx)

\* the search of one next_section, from the end of this section's header
NextSectionFind(text, next_section, section_name, start_idx) ==
    Find(Lower(text), Lower(next_section), start_idx + Len(section_name))

\* the inner loop over ESTIMATE_SECTIONS, from its k-th name on
RECURSIVE NextSectionIdx(_, _, _, _, _)
NextSectionIdx(text, section_name, start_idx, k, next_section_idx) ==
    IF k > Len(ESTIMATE_SECTIONS) THEN next_section_idx
    ELSE LET next_section == ESTIMATE_SECTIONS[k]
             idx == NextSectionFind(text, next_section, section_name, start_idx)
         IN  IF next_section # section_name /\ idx # -1 /\ idx < next_section_idx
             THEN NextSectionIdx(text, section_name, start_idx, k + 1, idx)
             ELSE NextSectionIdx(text, section_name, start_idx, k + 1, next_section_idx)

\* the text pieces the documents of the model are made of
SectPieces ==
    { <<"P","r","e","l","i","m","i","n","a","r">>,
      <<"e","s">>,
      <<"t","r","u","c","t","u","r","a">>,
      <<"A","c","a","b","a","d","o","s">>,
      <<"P","I","N","T","U","R","A">>,
      <<" ","x"," ">> }

RECURSIVE TextsOf(_, _)
TextsOf(pieces, n) ==
    IF n = 0 THEN {<<>>}
    ELSE LET shorter == TextsOf(pieces, n - 1)
         IN  shorter \cup {t \o p : t \in shorter, p \in pieces}

SectInit ==
    /\ pc = "sections"
    /\ text_content \in TextsOf(SectPieces, MaxPieces)
    /\ sec_i = 1
    /\ sections = <<>>
    /\ spans = <<>>
    /\ lines = <<>>
    /\ line_i = 0
    /\ metadata = <<>>
    /\ extracted_data = InitExtractedData
    /\ AiIdle
    /\ UtilIdle

\* one iteration of: for section_name in ESTIMATE_SECTIONS
SectStep ==
    /\ pc = "sections"
    /\ sec_i <= Len(ESTIMATE_SECTIONS)
    /\ LET text == text_content
           section_name == ESTIMATE_SECTIONS[sec_i]
       IN  IF SectionFound(section_name, text)
           THEN LET start_idx == Find(Lower(text), Lower(section_name), 0)
                    next_section_idx == NextSectionIdx(text, section_name, start_idx, 1, Inf)
                    end_idx == IF next_section_idx = Inf THEN Len(text) ELSE next_section_idx
                    section_text == Strip(Slice(text, start_idx, end_idx))
                IN  /\ sections' = DictSet(sections, section_name, section_text)
                    /\ spans' = DictSet(spans, section_name,
                                        [start |-> start_idx, end |-> end_idx])
           ELSE UNCHANGED <<sections, spans>>
    /\ sec_i' = sec_i + 1
    /\ UNCHANGED <<pc, text_content, extracted_data>>
    /\ UNCHANGED metaVars
    /\ UNCHANGED aiVars
    /\ UNCHANGED utilVars

\* self.extracted_data["sections"] = sections
SectDone ==
    /\ pc = "sections"
    /\ sec_i > Len(ESTIMATE_SECTIONS)
    /\ extracted_data' = [extracted_data EXCEPT !.sections = sections]
    /\ pc' = "sections_done"
    /\ UNCHANGED <<text_content, sec_i, sections, spans>>
    /\ UNCHANGED metaVars
    /\ UNCHANGED aiVars
    /\ UNCHANGED utilVars

SectNext == SectStep \/ SectDone

SpecSections == SectInit /\ [][SectNext]_vars

(***************************************************************************)
(* PDFProcessor._extract_metadata                                          *)
(***************************************************************************)
\* the dict literal the method starts from
EmptyMetadata ==
    << <<"project_name", <<>>>>, <<"client", <<>>>>, <<"date", <<>>>>,
       <<"location", <<>>>>, <<"total_amount", <<>>>> >>

\* (variant: the dict starts without keys)
NewMetadata_NoKeys == <<>>

NewMetadata == EmptyMetadata

KwProyecto == <<"p","r","o","y","e","c","t","o">>
KwCliente == <<"c","l","i","e","n","t","e">>
KwFecha == <<"f","e","c","h","a">>
KwUbicacion == <<"u","b","i","c","a","c","i","ó","n">>
KwTotal == <<"t","o","t","a","l">>

\* (variant: the field is taken as unset whatever it holds)
FieldUnset_Always(md, key) == TRUE

\* not metadata[key]
FieldUnset(md, key) == DictGet(md, key) = <<>>

\* parts = line.split(":", 1); if len(parts) > 1: metadata[key] = parts[1].strip()
SetFromColon(md, key, line) ==
    LET parts == Split1(line, ":")
    IN  IF Len(parts) > 1 THEN DictSet(md, key, Strip(parts[2])) ELSE md

\* (variant: the amount is stored as written, commas kept)
SetFromCurrency_KeepCommas(md, key, line) ==
    IF In(<<"$">>, line)
    THEN LET parts == Split1(line, "$")
         IN  IF Len(parts) > 1 THEN DictSet(md, key, Strip(parts[2])) ELSE md
    ELSE md

\* the total_amount branch: the text after the first "$", commas removed
SetFromCurrency(md, key, line) ==
    IF In(<<"$">>, line)
    THEN LET parts == Split1(line, "$")
         IN  IF Len(parts) > 1
             THEN DictSet(md, key, Remove(Strip(parts[2]), ","))
             ELSE md
    ELSE md

\* the body of the loop: the if / elif chain applied to one line
ScanLine(md, raw_line) ==
    LET line == Strip(raw_line)
    IN  IF In(KwProyecto, Lower(line)) /\ FieldUnset(md, "project_name")
        THEN SetFromColon(md, "project_name", line)
        ELSE IF In(KwCliente, Lower(line)) /\ FieldUnset(md, "client")
        THEN SetFromColon(md, "client", line)
        ELSE IF In(KwFecha, Lower(line)) /\ FieldUnset(md, "date")
        THEN SetFromColon(md, "date", line)
        ELSE IF In(KwUbicacion, Lower(line)) /\ FieldUnset(md, "location")
        THEN SetFromColon(md, "location", line)
        ELSE IF In(KwTotal, Lower(line)) /\ FieldUnset(md, "total_amount")
        THEN SetFromCurrency(md, "total_amount", line)
        ELSE md

\* the lines the documents of the model are made of: a label and a tail
MetaLabels ==
    { <<"P","r","o","y","e","c","t","o">>,
      <<"C","L","I","E","N","T","E">>,
      <<" ","F","e","c","h","a">>,
      <<"U","b","i","c","a","c","i","ó","n">>,
      <<"T","o","t","a","l">>,
      <<"C","l","i","e","n","t","e"," ","d","e","l"," ","p","r","o","y","e","c","t","o">>,
      <<"N","o","t","a">> }

MetaTails ==
    { <<>>,
      <<":">>,
      <<":"," ","A">>,
      <<":"," ","B"," ">>,
      <<":"," ","$","1",",","5">> }

MetaLines == {label \o tail : label \in MetaLabels, tail \in MetaTails}

RECURSIVE LineSeqs(_)
LineSeqs(n) ==
    IF n = 0 THEN {<<>>}
    ELSE LET shorter == LineSeqs(n - 1)
         IN  shorter \cup {ls \o <<l>> : ls \in shorter, l \in MetaLines}

\* a document with one field per line: Proyecto, Cliente, Fecha and Total
ExampleText ==
    <<"P","r","o","y","e","c","t","o",":"," ","C","a","s","a"," ","R","o","j",
      "a","\n","C","l","i","e","n","t","e",":"," ","J","u","a","n"," ","P",
      "é","r","e","z","\n","F","e","c","h","a",":"," ","0","1","/","0","1",
      "/","2","0","2","5","\n","T","o","t","a","l",":"," ","$","5","0",",",
      "0","0","0",".","0","0">>

MetaInit ==
    /\ pc = "metadata"
    /\ text_content \in {JoinLines(ls) : ls \in LineSeqs(MaxLines)} \cup {ExampleText}
    /\ lines = <<>>
    /\ line_i = 0
    /\ metadata = <<>>
    /\ sec_i = 0
    /\ sections = <<>>
    /\ spans = <<>>
    /\ extracted_data = InitExtractedData
    /\ AiIdle
    /\ UtilIdle

\* lines = self.text_content.split('\n'); metadata = {...}
MetaSplit ==
    /\ pc = "metadata"
    /\ lines' = Split(text_content, "\n")
    /\ metadata' = NewMetadata
    /\ line_i' = 1
    /\ pc' = "metadata_loop"
    /\ UNCHANGED <<text_content, extracted_data>>
    /\ UNCHANGED sectVars
    /\ UNCHANGED aiVars
    /\ UNCHANGED utilVars

\* one iteration of: for line in lines
MetaLine ==
    /\ pc = "metadata_loop"
    /\ line_i <= Len(lines)
    /\ metadata' = ScanLine(metadata, lines[line_i])
    /\ line_i' = line_i + 1
    /\ UNCHANGED <<pc, text_content, lines, extracted_data>>
    /\ UNCHANGED sectVars
    /\ UNCHANGED aiVars
    /\ UNCHANGED utilVars

\* self.extracted_data["metadata"] = metadata
MetaDone ==
    /\ pc = "metadata_loop"
    /\ line_i > Len(lines)
    /\ extracted_data' = [extracted_data EXCEPT !.metadata = metadata]
    /\ pc' = "metadata_done"
    /\ UNCHANGED <<text_content, lines, line_i, metadata>>
    /\ UNCHANGED sectVars
    /\ UNCHANGED aiVars
    /\ UNCHANGED utilVars

MetaNext == MetaSplit \/ MetaLine \/ MetaDone

SpecMetadata == MetaInit /\ [][MetaNext]_vars

(***************************************************************************)
(* AIExtractor: the enhancement step.  The text returned by the service is  *)
(* a sequence of tokens: the code fence, the word json, prose, blanks, and  *)
(* JSON texts, each JSON text being one token.                              *)
(***************************************************************************)
\* the code-fence delimiter, three backquotes
Fence == "<fence>"

\* s.split(sep) for a separator sep of one or more tokens
RECURSIVE SplitStr(_, _)
SplitStr(s, sep) ==
    LET i == Find(s, sep, 0)
    IN  IF i = -1 THEN <<s>>
        ELSE <<Slice(s, 0, i)>> \o SplitStr(Slice(s, i + Len(sep), Len(s)), sep)

\* the JSON texts the service of the model may return
DocEmpty == "{}"
DocPrompted ==
    "{\"enhanced_metadata\": {\"client\": \"B\", \"phone\": \"5\"}, \"key_items\": []}"
DocAlias == "{\"datos_proyecto\": {\"cliente\": \"B\"}}"
DocSame == "{\"datos_proyecto\": {\"client\": \"B\", \"Celular\": \"5\"}}"
DocMetadata == "{\"metadata\": {\"client\": \"B\"}}"
DocSectionsTables == "{\"sections\": {}, \"tables\": []}"
DocList == "[1, 2]"
DocNumber == "42"
DocPairs == "[[\"metadata\", {}], 5]"
DocInvalid == "{invalid"

\* an element of a JSON array, as dict.update sees it: a [key, value] pair or not
PairElem(k, v) == [pair |-> TRUE, k |-> k, v |-> v]
OtherElem == [pair |-> FALSE, k |-> "", v |-> <<>>]

\* json.loads on each JSON text: an object is a dict, the sequence of its items
JsonLoads ==
    DocEmpty :> EmptyDict
    @@ DocPrompted :>
        [kind |-> "dict",
         items |-> << <<"enhanced_metadata",
                        << <<"client", <<"B">>>>, <<"phone", <<"5">>>> >> >>,
                      <<"key_items", <<>>>> >>]
    @@ DocAlias :>
        [kind |-> "dict",
         items |-> << <<"datos_proyecto", << <<"cliente", <<"B">>>> >> >> >>]
    @@ DocSame :>
        [kind |-> "dict",
         items |-> << <<"datos_proyecto",
                        << <<"client", <<"B">>>>, <<"Celular", <<"5">>>> >> >> >>]
    @@ DocMetadata :>
        [kind |-> "dict",
         items |-> << <<"metadata", << <<"client", <<"B">>>> >> >> >>]
    @@ DocSectionsTables :>
        [kind |-> "dict", items |-> << <<"sections", <<>>>>, <<"tables", <<>>>> >>]
    @@ DocList :> [kind |-> "list", items |-> <<OtherElem, OtherElem>>]
    @@ DocNumber :> [kind |-> "scalar", items |-> <<>>]
    @@ DocPairs :> [kind |-> "list", items |-> <<PairElem("metadata", <<>>), OtherElem>>]

\* json.loads(json_str), with the JSONDecodeError handler that returns {}
LoadsOrEmpty(json_str) ==
    IF Len(json_str) = 1 /\ json_str[1] \in DOMAIN JsonLoads
    THEN JsonLoads[json_str[1]]
    ELSE EmptyDict

\* _enhance_with_langchain: the JSON text cut out of the result
JsonStrLangchain(res) ==
    IF In(<<Fence, "json">>, res)
    THEN Strip(SplitStr(SplitStr(res, <<Fence, "json">>)[2], <<Fence>>)[1])
    ELSE IF In(<<Fence>>, res)
    THEN Strip(SplitStr(res, <<Fence>>)[2])
    ELSE Strip(res)

\* _enhance_with_direct_api: the JSON text cut out of the stripped result
JsonStrDirectApi(text) ==
    LET res == Strip(text)
    IN  IF In(<<Fence, "json">>, res)
        THEN Strip(SplitStr(SplitStr(res, <<Fence, "json">>)[2], <<Fence>>)[1])
        ELSE IF In(<<Fence>>, res)
        THEN Strip(SplitStr(res, <<Fence>>)[2])
        ELSE Strip(res)

\* the pieces a service text is made of, around one JSON text
RespPieces(doc) == { <<Fence, "json">>, <<Fence>>, <<"Resultado:">>, <<" ">>, <<doc>> }

ResultTexts ==
    UNION {TextsOf(RespPieces(doc), MaxResp) : doc \in DOMAIN JsonLoads \cup {DocInvalid}}

\* what the service call does: it raises, or it returns a text
ServiceOutcomes ==
    {[raised |-> TRUE, text |-> <<>>]}
        \cup {[raised |-> FALSE, text |-> t] : t \in ResultTexts}

(***************************************************************************)
(* PDFProcessor._apply_ai_extraction and ExcelExporter._create_proyecto_sheet *)
(***************************************************************************)
\* d[k] = v on a dict with string keys held as a function
Put(d, k, v) == [x \in DOMAIN d \cup {k} |-> IF x = k THEN v ELSE d[x]]

\* dict.update(other): the items of a dict are set in turn; the elements of a
\* list are set while they are pairs, the first that is not raises; a number raises
RECURSIVE UpdateItems(_, _, _)
UpdateItems(d, kind, items) ==
    IF kind = "scalar" THEN [data |-> d, raised |-> TRUE]
    ELSE IF items = <<>> THEN [data |-> d, raised |-> FALSE]
    ELSE IF kind = "dict"
    THEN UpdateItems(Put(d, Head(items)[1], Head(items)[2]), kind, Tail(items))
    ELSE IF Head(items).pair
    THEN UpdateItems(Put(d, Head(items).k, Head(items).v), kind, Tail(items))
    ELSE [data |-> d, raised |-> TRUE]

\* the record the local extraction leaves behind
LocalSections ==
    << << <<"A","c","a","b","a","d","o","s">>,
          <<"A","c","a","b","a","d","o","s"," ","x">> >> >>

LocalTables == << [page |-> 1, data |-> << <<"101", "Excavación">> >>] >>

LocalMetadatas ==
    { EmptyMetadata,
      DictSet(DictSet(EmptyMetadata, "client", <<"A">>), "total_amount", <<"1","0","0">>) }

\* field_map of _create_proyecto_sheet: spelling -> 0-based column
field_map ==
    [nombre_proyecto |-> 0, project_name |-> 0, cliente |-> 1, client |-> 1,
     celular |-> 2, phone |-> 2, telefono_fijo |-> 3, phone_fixed |-> 3,
     direccion |-> 4, address |-> 4, email |-> 5, fecha |-> 6, date |-> 6,
     orden_trabajo |-> 7, work_order |-> 7, total_materiales |-> 8,
     total_material |-> 8, total_mano_obra |-> 9, total_mano_de_obra |-> 9,
     total_proyecto |-> 10, total_general |-> 10, total_amount |-> 10]
    @@ ("e-mail" :> 5)

NumHeaders == 11

\* key.lower() on the keys of the model
KeyLower(key) == IF key = "Celular" THEN "celular" ELSE key

\* dict.get(k) is truthy
Truthy(d, k) == DictHas(d, k) /\ DictGet(d, k) # <<>>

\* combined_data.update({k: v for k, v in datos_proyecto.items()
\*                       if v and not combined_data.get(k)})
RECURSIVE FillMissing(_, _, _)
FillMissing(combined, base, items) ==
    IF items = <<>> THEN combined
    ELSE LET k == Head(items)[1]
             v == Head(items)[2]
         IN  IF v # <<>> /\ ~Truthy(base, k)
             THEN FillMissing(DictSet(combined, k, v), base, Tail(items))
             ELSE FillMissing(combined, base, Tail(items))

\* for key, value in combined_data.items(): row_data[field_map[key_lower]] = value
RECURSIVE FillRow(_, _)
FillRow(row, items) ==
    IF items = <<>> THEN row
    ELSE LET key_lower == KeyLower(Head(items)[1])
             value == Head(items)[2]
         IN  IF key_lower \in DOMAIN field_map /\ value # <<>>
             THEN FillRow([row EXCEPT ![field_map[key_lower] + 1] = value], Tail(items))
             ELSE FillRow(row, Tail(items))

\* the single cell written when there is nothing to show
NoDataRow == << <<"No se encontraron datos del proyecto">> >>

\* row 2 of the sheet "Proyecto"
ProjectRow(data) ==
    LET md == IF "metadata" \in DOMAIN data THEN data["metadata"] ELSE <<>>
        datos_proyecto ==
            IF "datos_proyecto" \in DOMAIN data THEN data["datos_proyecto"] ELSE <<>>
        combined_data ==
            IF datos_proyecto # <<>> THEN FillMissing(md, md, datos_proyecto) ELSE md
    IN  IF combined_data = <<>> THEN NoDataRow
        ELSE FillRow([i \in 1..NumHeaders |-> <<>>], combined_data)

AiInit ==
    /\ pc = "ai"
    /\ text_content = <<>>
    /\ sec_i = 0
    /\ sections = <<>>
    /\ spans = <<>>
    /\ lines = <<>>
    /\ line_i = 0
    /\ metadata = <<>>
    /\ \E md \in LocalMetadatas :
           extracted_data = [metadata |-> md, sections |-> LocalSections,
                             tables |-> LocalTables, summary |-> <<>>]
    /\ local_data = extracted_data
    /\ use_ai \in BOOLEAN
    /\ langchain \in BOOLEAN
    /\ result = NoResult
    /\ enhanced_data = EmptyDict
    /\ ai_error = FALSE
    /\ row_data = <<>>
    /\ UtilIdle

\* enhance_extraction with use_ai off: return {}
EnhanceDisabled ==
    /\ pc = "ai"
    /\ ~use_ai
    /\ enhanced_data' = EmptyDict
    /\ pc' = "ai_update"
    /\ UNCHANGED <<text_content, extracted_data, use_ai, langchain, result, ai_error,
                   local_data, row_data>>
    /\ UNCHANGED <<sectVars, metaVars>>
    /\ UNCHANGED utilVars

\* enhance_extraction through _enhance_with_langchain; an exception of the call
\* is caught by enhance_extraction, which returns {}
EnhanceWithLangchain ==
    /\ pc = "ai"
    /\ use_ai
    /\ langchain
    /\ \E outcome \in ServiceOutcomes :
           /\ result' = outcome
           /\ enhanced_data' =
                  IF outcome.raised THEN EmptyDict
                  ELSE LoadsOrEmpty(JsonStrLangchain(outcome.text))
    /\ pc' = "ai_update"
    /\ UNCHANGED <<text_content, extracted_data, use_ai, langchain, ai_error,
                   local_data, row_data>>
    /\ UNCHANGED <<sectVars, metaVars>>
    /\ UNCHANGED utilVars

\* enhance_extraction through _enhance_with_direct_api, after the ImportError of
\* langchain; an exception of the call is caught inside, which returns {}
EnhanceWithDirectApi ==
    /\ pc = "ai"
    /\ use_ai
    /\ ~langchain
    /\ \E outcome \in ServiceOutcomes :
           /\ result' = outcome
           /\ enhanced_data' =
                  IF outcome.raised THEN EmptyDict
                  ELSE LoadsOrEmpty(JsonStrDirectApi(outcome.text))
    /\ pc' = "ai_update"
    /\ UNCHANGED <<text_content, extracted_data, use_ai, langchain, ai_error,
                   local_data, row_data>>
    /\ UNCHANGED <<sectVars, metaVars>>
    /\ UNCHANGED utilVars

\* self.extracted_data.update(enhanced_data); self.extracted_data["summary"] = {}
\* inside try / except Exception
ApplyAiExtraction ==
    /\ pc = "ai_update"
    /\ LET updated == UpdateItems(extracted_data, enhanced_data.kind, enhanced_data.items)
       IN  /\ extracted_data' =
                  IF updated.raised THEN updated.data
                  ELSE Put(updated.data, "summary", <<>>)
           /\ ai_error' = updated.raised
    /\ pc' = "ai_done"
    /\ UNCHANGED <<text_content, use_ai, langchain, result, enhanced_data, local_data,
                   row_data>>
    /\ UNCHANGED <<sectVars, metaVars>>
    /\ UNCHANGED utilVars

\* extract_data returned the record; the exporter writes the project row from it
ExportProyecto ==
    /\ pc = "ai_done"
    /\ row_data' = ProjectRow(extracted_data)
    /\ pc' = "exported"
    /\ UNCHANGED <<text_content, extracted_data, use_ai, langchain, result,
                   enhanced_data, ai_error, local_data>>
    /\ UNCHANGED <<sectVars, metaVars>>
    /\ UNCHANGED utilVars

AiNext ==
    \/ EnhanceDisabled
    \/ EnhanceWithLangchain
    \/ EnhanceWithDirectApi
    \/ ApplyAiExtraction
    \/ ExportProyecto

SpecEnhance == AiInit /\ [][AiNext]_vars

(***************************************************************************)
(* utils._sort_cells: the Cell Assembler.  A cell is <<x, y, w, h>>.        *)
(***************************************************************************)
MaxCells == 3

\* abs(a - b)
Abs(n) == IF n < 0 THEN -n ELSE n

\* the row tolerance of line 173
RowTolerance == 10

\* sorted(set([cell[1] for cell in cells]))
RECURSIVE SortedSet(_)
SortedSet(S) ==
    IF S = {} THEN <<>>
    ELSE LET m == CHOOSE a \in S : \A b \in S : a <= b
         IN  <<m>> \o SortedSet(S \ {m})

YCoords(cs) == SortedSet({cs[i][2] : i \in 1..Len(cs)})

\* list.sort(key=lambda cell: cell[0]): a stable sort by x
RECURSIVE InsertByX(_, _)
InsertByX(sorted, cell) ==
    IF sorted = <<>> THEN <<cell>>
    ELSE IF sorted[Len(sorted)][1] <= cell[1] THEN Append(sorted, cell)
    ELSE Append(InsertByX(SubSeq(sorted, 1, Len(sorted) - 1), cell), sorted[Len(sorted)])

RECURSIVE SortByX(_)
SortByX(cs) ==
    IF cs = <<>> THEN <<>>
    ELSE InsertByX(SortByX(SubSeq(cs, 1, Len(cs) - 1)), cs[Len(cs)])

\* (variant: a cell belongs to the row of its own y only)
RowCells_ExactY(cs, y) == SortByX(SelectSeq(cs, LAMBDA cell : cell[2] = y))

\* row_cells = [cell for cell in cells if abs(cell[1] - y) < 10], sorted by x
RowCells(cs, y) == SortByX(SelectSeq(cs, LAMBDA cell : Abs(cell[2] - y) < RowTolerance))

\* the whole function: one row per distinct y, in ascending order of y
SortCells(cs) == [k \in 1..Len(YCoords(cs)) |-> RowCells(cs, YCoords(cs)[k])]

\* the cell boxes of the model
CellXs == {100, 300}
CellYs == {100, 105, 112, 150}
CellBoxes == {<<x, y, 200, 50>> : x \in CellXs, y \in CellYs}

RECURSIVE CellLists(_)
CellLists(n) ==
    IF n = 0 THEN {<<>>}
    ELSE LET shorter == CellLists(n - 1)
         IN  shorter \cup {cs \o <<c>> : cs \in shorter, c \in CellBoxes}

\* _sort_cells is called with a list of cells
GridInit ==
    /\ pc = "sort_cells"
    /\ cells \in CellLists(MaxCells)
    /\ y_i = 1
    /\ rows = <<>>
    /\ log = <<>>
    /\ TblIdle
    /\ TxtIdle
    /\ MainIdle
    /\ OcrIdle
    /\ text_content = <<>>
    /\ sec_i = 0
    /\ sections = <<>>
    /\ spans = <<>>
    /\ lines = <<>>
    /\ line_i = 0
    /\ metadata = <<>>
    /\ extracted_data = InitExtractedData
    /\ AiIdle

\* one iteration of: for y in y_coords
SortRow ==
    /\ pc = "sort_cells"
    /\ y_i <= Len(YCoords(cells))
    /\ rows' = Append(rows, RowCells(cells, YCoords(cells)[y_i]))
    /\ y_i' = y_i + 1
    /\ UNCHANGED <<pc, cells, log, text_content, extracted_data>>
    /\ UNCHANGED <<sectVars, metaVars, aiVars, ocrVars, tblVars, txtVars, mainVars>>

\* return rows
SortReturn ==
    /\ pc = "sort_cells"
    /\ y_i > Len(YCoords(cells))
    /\ pc' = "sorted"
    /\ UNCHANGED <<cells, y_i, rows, log, text_content, extracted_data>>
    /\ UNCHANGED <<sectVars, metaVars, aiVars, ocrVars, tblVars, txtVars, mainVars>>

GridNext == SortRow \/ SortReturn

SpecGrid == GridInit /\ [][GridNext]_vars

(***************************************************************************)
(* utils.extract_table_data and PDFProcessor._extract_tables.  A page image *)
(* is described by what the image operations do on it: whether converting   *)
(* it to an array raises, whether the detection inside extract_table_data   *)
(* raises, and whether the page shows ruling lines.                         *)
(***************************************************************************)
MaxPages == 3

PageImages == [array : {"ok", "raises"}, detect : {"ok", "raises"}, ruled : BOOLEAN]

RECURSIVE PageLists(_)
PageLists(n) ==
    IF n = 0 THEN {<<>>}
    ELSE LET shorter == PageLists(n - 1)
         IN  shorter \cup {ps \o <<p>> : ps \in shorter, p \in PageImages}

\* the cells _find_cells returns
FindCells ==
    << <<100, 100, 200, 50>>, <<300, 100, 200, 50>>,
       <<100, 150, 200, 50>>, <<300, 150, 200, 50>> >>

\* the rows extract_table_data returns
SampleTable ==
    << <<"101", "Excavación", "m³", "150", "80.00", "12,000.00">>,
       <<"102", "Cimentación de concreto", "m³", "75", "1,200.00", "90,000.00">>,
       <<"103", "Muro de tabique", "m²", "350", "450.00", "157,500.00">> >>

\* extract_table_data(image): the rows returned and whether an error was logged
ExtractTableData(page) ==
    IF page.detect = "raises"
    THEN [data |-> <<>>, logged |-> TRUE]
    ELSE LET sorted_cells == SortCells(FindCells)
         IN  [data |-> SampleTable, logged |-> FALSE]

\* (variant: the record carries the 0-based loop index)
TableRecord_ZeroBased(i, table_data) == [page |-> i, data |-> table_data]

\* {"page": i + 1, "data": table_data}
TableRecord(i, table_data) == [page |-> i + 1, data |-> table_data]

LogEntry(where, page) == [where |-> where, page |-> page]

\* _extract_tables starts on the pages of a document
TablesInit ==
    /\ pc = "tables"
    /\ pages \in PageLists(MaxPages)
    /\ page_i = 0
    /\ tables = <<>>
    /\ log = <<>>
    /\ GridIdle
    /\ TxtIdle
    /\ MainIdle
    /\ OcrIdle
    /\ text_content = <<>>
    /\ sec_i = 0
    /\ sections = <<>>
    /\ spans = <<>>
    /\ lines = <<>>
    /\ line_i = 0
    /\ metadata = <<>>
    /\ extracted_data = InitExtractedData
    /\ AiIdle

\* one iteration of: for i, page in enumerate(self.pages), with its try / except
TablePage ==
    /\ pc = "tables"
    /\ page_i < Len(pages)
    /\ LET page == pages[page_i + 1]
           r == ExtractTableData(page)
       IN  IF page.array = "raises"
           THEN /\ log' = Append(log, LogEntry("_extract_tables", page_i + 1))
                /\ UNCHANGED tables
           ELSE /\ tables' = IF r.data # <<>>
                                THEN Append(tables, TableRecord(page_i, r.data))
                                ELSE tables
                /\ log' = IF r.logged
                             THEN Append(log, LogEntry("extract_table_data", 0))
                             ELSE log
    /\ page_i' = page_i + 1
    /\ UNCHANGED <<pc, pages, text_content, extracted_data>>
    /\ UNCHANGED <<sectVars, metaVars, aiVars, ocrVars, gridVars, txtVars, mainVars>>

\* self.extracted_data["tables"] = tables
TablesDone ==
    /\ pc = "tables"
    /\ page_i >= Len(pages)
    /\ extracted_data' = [extracted_data EXCEPT !.tables = tables]
    /\ pc' = "tables_done"
    /\ UNCHANGED <<pages, page_i, tables, log, text_content>>
    /\ UNCHANGED <<sectVars, metaVars, aiVars, ocrVars, gridVars, txtVars, mainVars>>

TablesNext == TablePage \/ TablesDone

SpecTables == TablesInit /\ [][TablesNext]_vars

(***************************************************************************)
(* utils.clean_text and utils.extract_currency                             *)
(***************************************************************************)
MaxTokens == 4

\* the combining marks U+0301 and U+0303, each one character
CombAcute == "<U+0301>"
CombTilde == "<U+0303>"

\* re.sub(r'\s+', ' ', text)
RECURSIVE CollapseSpaces(_)
CollapseSpaces(s) ==
    IF s = <<>> THEN <<>>
    ELSE IF Head(s) \in WhiteSpace THEN <<" ">> \o CollapseSpaces(LStrip(s))
    ELSE <<Head(s)>> \o CollapseSpaces(Tail(s))

\* text.replace(old, new) for characters old and new
ReplaceChar(s, old, new) == [k \in 1..Len(s) |-> IF s[k] = old THEN new ELSE s[k]]

\* (variant: no character is replaced)
OcrCorrections_None(s) == s

\* text.replace('l', '1').replace('O', '0')
OcrCorrections(s) == ReplaceChar(ReplaceChar(s, "l", "1"), "O", "0")

\* the canonical and compatibility decompositions of the characters of the model
Decomposition ==
    "á" :> <<"a", CombAcute>> @@ "é" :> <<"e", CombAcute>> @@
    "í" :> <<"i", CombAcute>> @@ "ó" :> <<"o", CombAcute>> @@
    "ú" :> <<"u", CombAcute>> @@ "ñ" :> <<"n", CombTilde>> @@
    "Á" :> <<"A", CombAcute>> @@ "É" :> <<"E", CombAcute>> @@
    "Í" :> <<"I", CombAcute>> @@ "Ó" :> <<"O", CombAcute>> @@
    "Ú" :> <<"U", CombAcute>> @@ "Ñ" :> <<"N", CombTilde>> @@
    "²" :> <<"2">> @@ "³" :> <<"3">>

\* unicodedata.normalize('NFKD', text)
RECURSIVE NFKD(_)
NFKD(s) ==
    IF s = <<>> THEN <<>>
    ELSE (IF Head(s) \in DOMAIN Decomposition THEN Decomposition[Head(s)]
          ELSE <<Head(s)>>) \o NFKD(Tail(s))

\* re.sub(r'\n+', '\n', text)
RECURSIVE CollapseNewlines(_)
CollapseNewlines(s) ==
    IF s = <<>> THEN <<>>
    ELSE IF Head(s) = "\n" /\ Len(s) > 1 /\ s[2] = "\n" THEN CollapseNewlines(Tail(s))
    ELSE <<Head(s)>> \o CollapseNewlines(Tail(s))

\* clean_text(text)
CleanText(text) == Strip(CollapseNewlines(NFKD(OcrCorrections(CollapseSpaces(text)))))

Digits == {"0", "1", "2", "3", "4", "5", "6", "7", "8", "9"}

\* the 1-based place of the first digit of s, 0 when s has none
FirstDigitAt(s) ==
    IF \A k \in 1..Len(s) : s[k] \notin Digits THEN 0
    ELSE CHOOSE k \in 1..Len(s) :
             s[k] \in Digits /\ \A h \in 1..(k - 1) : s[h] \notin Digits

\* \d+ from place k: the place after the run of digits
RECURSIVE DigitsEnd(_, _)
DigitsEnd(s, k) == IF k <= Len(s) /\ s[k] \in Digits THEN DigitsEnd(s, k + 1) ELSE k

\* \d+(?:[.,]\d+)*(?:[.,]\d+)? from place k: the place after the greedy match
RECURSIVE GroupEnd(_, _)
GroupEnd(s, k) ==
    LET e == DigitsEnd(s, k)
    IN  IF e + 1 <= Len(s) /\ s[e] \in {".", ","} /\ s[e + 1] \in Digits
        THEN GroupEnd(s, e + 1)
        ELSE e

\* re.search(currency_pattern, text): group(1) of the leftmost match, which
\* starts at the first digit of the text whatever symbol or blanks precede it
SearchCurrency(text) ==
    LET k == FirstDigitAt(text)
    IN  IF k = 0 THEN [found |-> FALSE, group |-> <<>>]
        ELSE [found |-> TRUE, group |-> SubSeq(text, k, GroupEnd(text, k) - 1)]

\* the whole part of a number without the zeros that open it
RECURSIVE WholeDigits(_)
WholeDigits(ds) == IF ds # <<>> /\ Head(ds) = "0" THEN WholeDigits(Tail(ds)) ELSE ds

\* the decimals of a number without the zeros that end them
RECURSIVE StripZeros(_)
StripZeros(ds) ==
    IF ds # <<>> /\ ds[Len(ds)] = "0" THEN StripZeros(SubSeq(ds, 1, Len(ds) - 1)) ELSE ds

\* float(amount_str): the value as the digits of its whole part and its
\* decimals, None on ValueError
ParseFloat(amount_str) ==
    LET parts == Split(amount_str, ".")
    IN  IF \/ Len(parts) > 2
           \/ \E k \in 1..Len(amount_str) : amount_str[k] \notin Digits \cup {"."}
        THEN NoneValue
        ELSE [kind |-> "float", whole |-> WholeDigits(parts[1]),
              frac |-> IF Len(parts) = 2 THEN StripZeros(parts[2]) ELSE <<>>]

\* (variant: the separators are left in the amount)
CleanAmount_KeepCommas(amount_str) == amount_str

\* amount_str.replace(',', '')
CleanAmount(amount_str) == Remove(amount_str, ",")

\* extract_currency(text)
ExtractCurrency(text) ==
    LET match == SearchCurrency(text)
    IN  IF match.found THEN ParseFloat(CleanAmount(match.group)) ELSE NoneValue

\* the texts of the model: pieces of OCR text, and pieces of amounts
CleanPieces ==
    { <<"C","a","f","é">>,
      <<" ">>,
      <<" "," ">>,
      <<"\n">>,
      <<"Ñ","a","n","d","ú">>,
      <<"l">>,
      <<"O">>,
      <<"a">> }

CurrencyPieces ==
    { <<"x"," ">>,
      <<"$">>,
      <<" ">>,
      <<"1">>,
      <<",","2","3","4">>,
      <<".","5","6">>,
      <<",">>,
      <<".">> }

TestTexts ==
    { <<"T","h","i","s"," "," "," ","i","s"," "," ","a","\n","\n","t","e","s","t"," "," "," ","t","e","x","t">>,
      <<"C","a","f","é"," ","Ñ","a","n","d","ú">>,
      <<"P","r","i","c","e",":"," ","$","1","2","3",".","4","5">>,
      <<"T","o","t","a","l",":"," ","$","1",",","2","3","4",".","5","6">>,
      <<"A","m","o","u","n","t",":"," ","7","8","9",".","1","0">>,
      <<"N","o"," ","c","u","r","r","e","n","c","y"," ","h","e","r","e">> }

RECURSIVE TextsFrom(_, _)
TextsFrom(pieces, n) ==
    IF n = 0 THEN {<<>>}
    ELSE LET shorter == TextsFrom(pieces, n - 1)
         IN  shorter \cup {t \o q : t \in shorter, q \in pieces}

\* a text is about to be passed to clean_text or to extract_currency
TextInit ==
    /\ pc = "text"
    /\ arg_text \in TextsFrom(CleanPieces, MaxTokens)
                     \cup TextsFrom(CurrencyPieces, MaxTokens) \cup TestTexts
    /\ clean_out = <<>>
    /\ currency_out = NoneValue
    /\ log = <<>>
    /\ TblIdle
    /\ GridIdle
    /\ MainIdle
    /\ OcrIdle
    /\ text_content = <<>>
    /\ sec_i = 0
    /\ sections = <<>>
    /\ spans = <<>>
    /\ lines = <<>>
    /\ line_i = 0
    /\ metadata = <<>>
    /\ extracted_data = InitExtractedData
    /\ AiIdle

CallCleanText ==
    /\ pc = "text"
    /\ clean_out' = CleanText(arg_text)
    /\ pc' = "cleaned"
    /\ UNCHANGED <<arg_text, currency_out, log, text_content, extracted_data>>
    /\ UNCHANGED <<sectVars, metaVars, aiVars, ocrVars, tblVars, gridVars, mainVars>>

CallExtractCurrency ==
    /\ pc = "text"
    /\ currency_out' = ExtractCurrency(arg_text)
    /\ pc' = "currency"
    /\ UNCHANGED <<arg_text, clean_out, log, text_content, extracted_data>>
    /\ UNCHANGED <<sectVars, metaVars, aiVars, ocrVars, tblVars, gridVars, mainVars>>

TextNext == CallCleanText \/ CallExtractCurrency

SpecText == TextInit /\ [][TextNext]_vars

(***************************************************************************)
(* main: the batch over the documents of the input directory.  A document   *)
(* is described by its stem and by the step of its processing that raises,  *)
(* if any: the rendering of its pages (re-raised by _convert_pdf_to_images),*)
(* another step of the extraction, or the export.                           *)
(***************************************************************************)
MaxDocs == 3

Stems == {"a", "b", "c", "d"}
Failures == {"render", "extract", "export"}
Documents == [stem : Stems, fails : {"none"} \cup Failures]

\* the listings of a directory: documents with distinct names
RECURSIVE DocLists(_)
DocLists(n) ==
    IF n = 0 THEN {<<>>}
    ELSE LET shorter == DocLists(n - 1)
         IN  shorter \cup {ds \o <<doc>> : ds \in shorter, doc \in Documents}

SameStem(ds) == \E j, k \in 1..Len(ds) : j # k /\ ds[j].stem = ds[k].stem

\* Path(OUTPUT_DIR) / f"{pdf_path.stem}.xlsx"
OutputFile(doc) == [dir |-> "OUTPUT_DIR", stem |-> doc.stem, suffix |-> ".xlsx"]

\* (variant: only a rendering failure is caught)
CaughtByMain_RenderOnly(failure) == failure = "render"

\* except Exception: every failure of the three steps is caught
CaughtByMain(failure) == failure \in Failures

\* main starts on the listing of the input directory
MainInit ==
    /\ pc = "main"
    /\ docs \in {ds \in DocLists(MaxDocs) : ~SameStem(ds)}
    /\ doc_i = 1
    /\ attempts = <<>>
    /\ files = {}
    /\ log = <<>>
    /\ TblIdle
    /\ GridIdle
    /\ TxtIdle
    /\ OcrIdle
    /\ text_content = <<>>
    /\ sec_i = 0
    /\ sections = <<>>
    /\ spans = <<>>
    /\ lines = <<>>
    /\ line_i = 0
    /\ metadata = <<>>
    /\ extracted_data = InitExtractedData
    /\ AiIdle

\* if not pdf_files: return
MainNoFiles ==
    /\ pc = "main"
    /\ docs = <<>>
    /\ pc' = "main_done"
    /\ UNCHANGED <<docs, doc_i, attempts, files, log, text_content, extracted_data>>
    /\ UNCHANGED <<sectVars, metaVars, aiVars, ocrVars, tblVars, gridVars, txtVars>>

\* one iteration of: for pdf_path in pdf_files, with its try / except.  The
\* file is saved by the last statement of export: when the export raises, the
\* file may or may not have been written.
ProcessDocument ==
    /\ pc = "main"
    /\ docs # <<>>
    /\ doc_i <= Len(docs)
    /\ LET doc == docs[doc_i]
       IN  /\ attempts' = Append(attempts, doc.stem)
           /\ \/ /\ doc.fails = "none"
                 /\ files' = files \cup {OutputFile(doc)}
                 /\ UNCHANGED <<log, pc>>
              \/ /\ doc.fails \in Failures
                 /\ \E written \in BOOLEAN :
                        /\ written => doc.fails = "export"
                        /\ files' = IF written THEN files \cup {OutputFile(doc)} ELSE files
                 /\ IF CaughtByMain(doc.fails)
                    THEN /\ log' = Append(log, [where |-> "main", page |-> doc_i])
                         /\ UNCHANGED pc
                    ELSE /\ pc' = "main_raised"
                         /\ UNCHANGED log
    /\ doc_i' = doc_i + 1
    /\ UNCHANGED <<docs, text_content, extracted_data>>
    /\ UNCHANGED <<sectVars, metaVars, aiVars, ocrVars, tblVars, gridVars, txtVars>>

\* the loop is over
MainDone ==
    /\ pc = "main"
    /\ docs # <<>>
    /\ doc_i > Len(docs)
    /\ pc' = "main_done"
    /\ UNCHANGED <<docs, doc_i, attempts, files, log, text_content, extracted_data>>
    /\ UNCHANGED <<sectVars, metaVars, aiVars, ocrVars, tblVars, gridVars, txtVars>>

MainNext == MainNoFiles \/ ProcessDocument \/ MainDone

SpecMain == MainInit /\ [][MainNext]_vars

(***************************************************************************)
(* PDFProcessor._extract_text_from_images, and extract_data / _process_text *)
(* which run the metadata and section extraction on the text it leaves.     *)
(***************************************************************************)
\* str(n) for a natural number
RECURSIVE IntStr(_)
IntStr(n) == IF n < 10 THEN <<ToString(n)>> ELSE IntStr(n \div 10) \o <<ToString(n % 10)>>

\* (variant: the marker counts the pages read so far)
PageMarker_Running(i, read) ==
    <<"-","-","-","P","Á","G","I","N","A"," ">> \o IntStr(Len(read) + 1) \o <<"-","-","-">>

\* f"---PÁGINA {i+1}---"
PageMarker(i, read) ==
    <<"-","-","-","P","Á","G","I","N","A"," ">> \o IntStr(i + 1) \o <<"-","-","-">>

\* page_text = f"---PÁGINA {i+1}---\n{text}\n"
PageText(i, read, text) == PageMarker(i, read) \o <<"\n">> \o text \o <<"\n">>

\* the texts the OCR engine returns for the pages of the model
RawTexts ==
    { <<"P","r","e","l","i","m","i","n","a","r","e","s","\n","C","l","i","e","n","t","e",":"," ","X">>,
      <<"A","c","a","b","a","d","o","s","\n","F","e","c","h","a",":"," ","1">>,
      <<"P","a","g","e"," ","1"," ","t","e","x","t">> }

OcrOutcomes ==
    {[raised |-> TRUE, text |-> <<>>]} \cup {[raised |-> FALSE, text |-> t] : t \in RawTexts}

RECURSIVE OcrLists(_)
OcrLists(n) ==
    IF n = 0 THEN {<<>>}
    ELSE LET shorter == OcrLists(n - 1)
         IN  shorter \cup {os \o <<o>> : os \in shorter, o \in OcrOutcomes}

\* a page image on which every image operation succeeds
PlainPage == [array |-> "ok", detect |-> "ok", ruled |-> FALSE]

\* _extract_text_from_images starts on the pages of a document
OcrInit ==
    /\ pc = "ocr"
    /\ ocr_out \in OcrLists(MaxPages)
    /\ pages = [k \in 1..Len(ocr_out) |-> PlainPage]
    /\ ocr_i = 0
    /\ full_text = <<>>
    /\ text_content = <<>>
    /\ page_i = 0
    /\ tables = <<>>
    /\ log = <<>>
    /\ GridIdle
    /\ TxtIdle
    /\ MainIdle
    /\ sec_i = 0
    /\ sections = <<>>
    /\ spans = <<>>
    /\ lines = <<>>
    /\ line_i = 0
    /\ metadata = <<>>
    /\ extracted_data = InitExtractedData
    /\ AiIdle

\* one iteration of: for i, page in enumerate(self.pages), with its try / except
OcrPage ==
    /\ pc = "ocr"
    /\ ocr_i < Len(pages)
    /\ LET outcome == ocr_out[ocr_i + 1]
       IN  IF outcome.raised
           THEN /\ log' = Append(log, LogEntry("_extract_text_from_images", ocr_i + 1))
                /\ UNCHANGED full_text
           ELSE /\ full_text' = Append(full_text,
                                       PageText(ocr_i, full_text, CleanText(outcome.text)))
                /\ UNCHANGED log
    /\ ocr_i' = ocr_i + 1
    /\ UNCHANGED <<pc, ocr_out, text_content, extracted_data>>
    /\ UNCHANGED <<sectVars, metaVars, aiVars, tblVars, gridVars, txtVars, mainVars>>

\* self.text_content = "\n".join(full_text)
OcrJoin ==
    /\ pc = "ocr"
    /\ ocr_i >= Len(pages)
    /\ text_content' = JoinLines(full_text)
    /\ pc' = "ocr_done"
    /\ UNCHANGED <<ocr_out, ocr_i, full_text, log, extracted_data>>
    /\ UNCHANGED <<sectVars, metaVars, aiVars, tblVars, gridVars, txtVars, mainVars>>

\* extract_data calls _process_text, which calls _extract_metadata
ProcessText ==
    /\ pc = "ocr_done"
    /\ pc' = "metadata"
    /\ UNCHANGED <<text_content, extracted_data>>
    /\ UNCHANGED <<sectVars, metaVars, aiVars, utilVars>>

\* _process_text then calls _extract_sections
ProcessSections ==
    /\ pc = "metadata_done"
    /\ pc' = "sections"
    /\ sec_i' = 1
    /\ sections' = <<>>
    /\ spans' = <<>>
    /\ UNCHANGED <<text_content, extracted_data>>
    /\ UNCHANGED <<metaVars, aiVars, utilVars>>

PipelineNext ==
    \/ OcrPage
    \/ OcrJoin
    \/ ProcessText
    \/ MetaSplit
    \/ MetaLine
    \/ MetaDone
    \/ ProcessSections
    \/ SectStep
    \/ SectDone

SpecPipeline == OcrInit /\ [][PipelineNext]_vars

(***************************************************************************)
(* Properties of the Text Segmenter                                        *)
(***************************************************************************)
\* sub occurs in s at 0-based offset k
OccursAt(s, sub, k) ==
    /\ k >= 0
    /\ k + Len(sub) <= Len(s)
    /\ \A j \in 1..Len(sub) : s[k + j] = sub[j]

\* name occurs in text, ignoring case
OccursCI(text, name) ==
    LET lowered == Lower(text)
        header == Lower(name)
    IN  \E k \in 0..(Len(text) - Len(name)) : OccursAt(lowered, header, k)

VocabularyNames == {ESTIMATE_SECTIONS[k] : k \in 1..Len(ESTIMATE_SECTIONS)}

FoundNames(text) == {n \in VocabularyNames : OccursCI(text, n)}

FirstOccurrence(text, name) ==
    LET lowered == Lower(text)
        header == Lower(name)
    IN  CHOOSE k \in 0..Len(text) :
            /\ OccursAt(lowered, header, k)
            /\ \A j \in 0..(k - 1) : ~OccursAt(lowered, header, j)

SetMin(S) == CHOOSE x \in S : \A y \in S : x <= y

\* C5: the spans of two distinct section names never overlap:
\* span_a.end <= span_b.start or span_b.end <= span_a.start.
C5_SpansNeverOverlap ==
    \A a \in DictKeys(spans) : \A b \in DictKeys(spans) :
        a # b =>
            \/ DictGet(spans, a).end <= DictGet(spans, b).start
            \/ DictGet(spans, b).end <= DictGet(spans, a).start

\* no occurrence of a vocabulary header in the text begins inside, or at the
\* offset of, an occurrence of another header
HeadersApart(text) ==
    LET lowered == Lower(text)
        occurrences == {o \in VocabularyNames \X (0..Len(text)) :
                           OccursAt(lowered, Lower(o[1]), o[2])}
    IN  \A a \in occurrences : \A b \in occurrences :
            a[1] # b[1] => ~(a[2] <= b[2] /\ b[2] < a[2] + Len(a[1]))

\* C6 (as stated): a span starts at the first occurrence of its header and ends at
\* the least first-occurrence offset of another found section that lies strictly
\* after the span's start, or at end-of-text when there is none; a repeated
\* occurrence of a header first seen before the span's start does not end it.
\* Stated on the texts whose headers stand apart, where spans cannot overlap.
C6_EndsAtNextFirstOccurrence ==
    HeadersApart(text_content) =>
        \A n \in DictKeys(spans) :
            LET start == DictGet(spans, n).start
                later == {FirstOccurrence(text_content, m) :
                             m \in FoundNames(text_content) \ {n}}
                            \cap {k \in 0..Len(text_content) : k > start}
            IN  /\ start = FirstOccurrence(text_content, n)
                /\ DictGet(spans, n).end =
                       IF later = {} THEN Len(text_content) ELSE SetMin(later)

\* C6 (amended): a span starts at the first occurrence of its header and ends at
\* the least offset, at or after the end of that header, at which any other
\* vocabulary header occurs (a first or a repeated occurrence), or at end-of-text
\* when there is none.
C6_EndsAtNextHeaderOccurrence ==
    \A n \in DictKeys(spans) :
        LET start == DictGet(spans, n).start
            lowered == Lower(text_content)
            following == {k \in (start + Len(n))..Len(text_content) :
                            \E m \in VocabularyNames \ {n} :
                                OccursAt(lowered, Lower(m), k)}
        IN  /\ start = FirstOccurrence(text_content, n)
            /\ DictGet(spans, n).end =
                   IF following = {} THEN Len(text_content) ELSE SetMin(following)

\* C6 witness: a span was ended by a repeated occurrence of a header whose
\* first occurrence lies before the span's start.
C6_Witness ==
    \E n \in DictKeys(spans) : \E m \in VocabularyNames \ {n} :
        /\ DictGet(spans, n).end < Len(text_content)
        /\ OccursAt(Lower(text_content), Lower(m), DictGet(spans, n).end)
        /\ FirstOccurrence(text_content, m) < DictGet(spans, n).start

\* C7: the sections map has a key for a vocabulary name exactly when the name
\* occurs (ignoring case) in the text, and no key is held with empty text.
C7_KeyIffNameOccurs ==
    /\ \A k \in 1..Len(ESTIMATE_SECTIONS) :
           k < sec_i =>
               /\ DictHas(sections, ESTIMATE_SECTIONS[k])
                      <=> OccursCI(text_content, ESTIMATE_SECTIONS[k])
               /\ DictHas(sections, ESTIMATE_SECTIONS[k])
                      => DictGet(sections, ESTIMATE_SECTIONS[k]) # <<>>
    /\ DictKeys(sections) \subseteq VocabularyNames
    /\ pc = "sections_done" => extracted_data.sections = sections

\* C7 witness: segmentation finished with a header found in another letter case
\* and another vocabulary name absent from the map.
C7_Witness ==
    /\ pc = "sections_done"
    /\ \E n \in DictKeys(extracted_data.sections) : ~In(n, text_content)
    /\ \E n \in VocabularyNames : ~DictHas(extracted_data.sections, n)

(***************************************************************************)
(* Properties of the Metadata Extractor                                    *)
(***************************************************************************)
MetaFields == {"project_name", "client", "date", "location", "total_amount"}

FieldKeyword ==
    [project_name |-> KwProyecto, client |-> KwCliente, date |-> KwFecha,
     location |-> KwUbicacion, total_amount |-> KwTotal]

FieldDelimiter ==
    [project_name |-> ":", client |-> ":", date |-> ":", location |-> ":",
     total_amount |-> "$"]

\* the line carries the field's keyword (ignoring case) and the field's delimiter
HasLabel(line, f) ==
    /\ OccursCI(line, FieldKeyword[f])
    /\ \E i \in 1..Len(line) : line[i] = FieldDelimiter[f]

\* the trimmed text after the first delimiter (thousands separators removed for
\* the currency field)
TrailingValue(line, f) ==
    LET i == SetMin({j \in 1..Len(line) : line[j] = FieldDelimiter[f]})
        tail == Strip(SubSeq(line, i + 1, Len(line)))
    IN  IF f = "total_amount" THEN SelectSeq(tail, LAMBDA c : c # ",") ELSE tail

\* the lines of the text that label field f with a value
LabelledLines(f) ==
    {i \in 1..Len(lines) :
        /\ HasLabel(Strip(lines[i]), f)
        /\ TrailingValue(Strip(lines[i]), f) # <<>>}

\* C8 (as stated): in the MetadataMap produced, a field whose label is not found
\* is absent, and no key is present with an empty value.
C8_NoKeyWithEmptyValue ==
    pc = "metadata_done" =>
        \A f \in DictKeys(extracted_data.metadata) :
            DictGet(extracted_data.metadata, f) # <<>>

\* C8 (amended): the MetadataMap always has the five keys project_name, client,
\* date, location and total_amount, and a field whose keyword occurs in no line
\* of the text holds the empty string.
C8_UnfoundFieldIsEmptyString ==
    /\ pc \in {"metadata_loop", "metadata_done"} => DictKeys(metadata) = MetaFields
    /\ pc = "metadata_done" =>
           /\ DictKeys(extracted_data.metadata) = MetaFields
           /\ \A f \in MetaFields :
                  (\A i \in 1..Len(lines) : ~OccursCI(lines[i], FieldKeyword[f]))
                      => DictGet(extracted_data.metadata, f) = <<>>

\* C8 witness: extraction finished on a text that labels one field with a value
\* and never mentions another field.
C8_Witness ==
    /\ pc = "metadata_done"
    /\ \E f \in MetaFields : DictGet(extracted_data.metadata, f) # <<>>
    /\ \E f \in MetaFields :
           /\ \A i \in 1..Len(lines) : ~OccursCI(lines[i], FieldKeyword[f])
           /\ DictGet(extracted_data.metadata, f) = <<>>

\* C9: first match wins: once a field holds a non-empty value, no later step of
\* the scan changes that field's value.
C9_FirstMatchWins ==
    [][\A f \in DictKeys(metadata) :
           DictGet(metadata, f) # <<>> =>
               /\ DictHas(metadata', f)
               /\ DictGet(metadata', f) = DictGet(metadata, f)]_vars

\* C9 witness: a field was populated from one line and a later line, already
\* scanned, labels the same field with a different value.
C9_Witness ==
    /\ pc = "metadata_loop"
    /\ \E f \in MetaFields : \E i \in 1..Len(lines) : \E j \in 1..Len(lines) :
           /\ i < j
           /\ j < line_i
           /\ i \in LabelledLines(f)
           /\ j \in LabelledLines(f)
           /\ TrailingValue(Strip(lines[j]), f) # TrailingValue(Strip(lines[i]), f)
           /\ DictGet(metadata, f) = TrailingValue(Strip(lines[i]), f)

\* C10: every field is resolved independently of the others: its value is the
\* trimmed text after the first delimiter of the first line, in document order,
\* that carries the field's keyword and delimiter, whatever other keywords that
\* line or earlier lines carry.
C10_FieldsResolvedIndependently ==
    pc = "metadata_done" =>
        \A f \in MetaFields :
            LabelledLines(f) # {} =>
                /\ DictHas(extracted_data.metadata, f)
                /\ DictGet(extracted_data.metadata, f)
                       = TrailingValue(Strip(lines[SetMin(LabelledLines(f))]), f)

\* the trimmed text after the first delimiter, exactly as written in the line
AsWritten(line, f) ==
    LET i == SetMin({j \in 1..Len(line) : line[j] = FieldDelimiter[f]})
    IN  Strip(SubSeq(line, i + 1, Len(line)))

\* the line carries the keyword of no field other than f
OnlyLabel(line, f) == \A g \in MetaFields \ {f} : ~OccursCI(line, FieldKeyword[g])

\* the first line labelling f with a value, when that line labels no other field
FirstAlone(f) ==
    IF LabelledLines(f) = {} THEN 0
    ELSE LET i == SetMin(LabelledLines(f))
         IN  IF OnlyLabel(lines[i], f) THEN i ELSE 0

ExampleComma == <<"5","0",",","0","0","0",".","0","0">>
ExampleAmount == <<"5","0","0","0","0",".","0","0">>

C12_AmountStoredAsWritten ==
    pc = "metadata_done" =>
        \A f \in MetaFields :
            FirstAlone(f) # 0 =>
                DictGet(extracted_data.metadata, f)
                    = AsWritten(Strip(lines[FirstAlone(f)]), f)

(***************************************************************************)
(* Properties of the enhancement step and of the Extraction Reconciler     *)
(***************************************************************************)
\* the spellings field_map accepts for the column of spelling s
SameField(s) == {t \in DOMAIN field_map : field_map[t] = field_map[s]}

\* C1: reconciliation never overwrites a non-empty local field: when the local
\* metadata holds a non-empty value under an accepted spelling of a field, the
\* exported project row holds that value in the field's column, whatever the
\* enhancement data holds under the same or an alias spelling.
C1_LocalFieldNeverOverwritten ==
    pc = "exported" =>
        \A s \in DOMAIN field_map :
            Truthy(local_data.metadata, s) =>
                /\ Len(row_data) = NumHeaders
                /\ row_data[field_map[s] + 1] = DictGet(local_data.metadata, s)

\* C2: enhancement is strictly additive: whatever payload the enhancement step
\* returned, after _apply_ai_extraction the record's metadata, sections and
\* tables equal the locally extracted ones.
C2_EnhancementIsAdditive ==
    pc \in {"ai_done", "exported"} =>
        /\ extracted_data.metadata = local_data.metadata
        /\ extracted_data.sections = local_data.sections
        /\ extracted_data.tables = local_data.tables

\* C3: a field absent or empty locally is filled from the enhancement: when the
\* payload, in the structure the service is asked to return, carries a non-empty
\* value for a field that no local spelling populates, the exported project row
\* holds the enhancement value in that field's column.
C3_AbsentFieldFilledFromEnhancement ==
    (pc = "exported" /\ enhanced_data.kind = "dict"
        /\ DictHas(enhanced_data.items, "enhanced_metadata")) =>
        LET enhanced_metadata == DictGet(enhanced_data.items, "enhanced_metadata")
        IN  \A i \in 1..Len(enhanced_metadata) :
                LET key == KeyLower(enhanced_metadata[i][1])
                    value == enhanced_metadata[i][2]
                IN  (/\ key \in DOMAIN field_map
                     /\ value # <<>>
                     /\ \A t \in SameField(key) : ~Truthy(local_data.metadata, t)) =>
                        /\ Len(row_data) = NumHeaders
                        /\ row_data[field_map[key] + 1] = value

\* the enhancement step failed: the call raised, or the text cut out of the
\* result is not valid JSON, or it is valid JSON that is not an object
EnhancementFailed ==
    \/ result.raised
    \/ LET json_str == IF langchain THEN JsonStrLangchain(result.text)
                       ELSE JsonStrDirectApi(result.text)
       IN  \/ Len(json_str) # 1
           \/ json_str[1] \notin DOMAIN JsonLoads
           \/ JsonLoads[json_str[1]].kind # "dict"

\* C4: any failure of the enhancement step yields an empty payload and no
\* exception: enhance_extraction returns an empty mapping.
C4_FailureYieldsEmptyPayload ==
    (pc \in {"ai_update", "ai_done", "exported"} /\ use_ai /\ EnhancementFailed) =>
        enhanced_data = EmptyDict

(***************************************************************************)
(* Properties of the Table Extractor and of the Cell Assembler             *)
(***************************************************************************)
\* the pages on which no image operation raises
SoundPages == {i \in 1..Len(pages) : pages[i].array = "ok" /\ pages[i].detect = "ok"}

TablePagesOf(ts) == {ts[k].page : k \in 1..Len(ts)}

\* C13: a page with no detectable ruling lines yields zero table rows and
\* contributes no TableRecord; the rows returned for a page are derived from
\* the cells detected on that page.
C13_UnruledPageYieldsNoTable ==
    pc = "tables_done" =>
        \A i \in 1..Len(pages) :
            ~pages[i].ruled => i \notin TablePagesOf(extracted_data.tables)

\* C14: a failure while extracting the table of one page never aborts the
\* document: every page is visited, every non-failing page contributes its
\* table, failing pages contribute none, and the tables list is in strictly
\* increasing order of 1-based page index.
C14_PageFailureIsContained ==
    /\ pc \in {"tables", "tables_done"}
    /\ TablePagesOf(tables) = {i \in SoundPages : i <= page_i}
    /\ \A k \in 1..Len(tables) :
           /\ tables[k].data # <<>>
           /\ k > 1 => tables[k - 1].page < tables[k].page
    /\ pc = "tables_done" =>
           /\ page_i = Len(pages)
           /\ extracted_data.tables = tables
           /\ Len(log) = Len(pages) - Cardinality(SoundPages)

\* C14 witness: extraction finished on a document where a failing page lies
\* between two pages that contributed their tables.
C14_Witness ==
    /\ pc = "tables_done"
    /\ \E i, j, k \in 1..Len(pages) :
           /\ i < j /\ j < k
           /\ j \notin SoundPages
           /\ {i, k} \subseteq TablePagesOf(extracted_data.tables)

\* the numbers of cells of the rows of a grid
RowCounts(grid) == {Len(grid[k]) : k \in 1..Len(grid)}

\* C15: for every Grid produced by the Cell Assembler, either every row has the
\* same number of cells or the mismatch is explicitly reported to the caller.
C15_RowCountsUniformOrFlagged ==
    pc = "sorted" => (Cardinality(RowCounts(rows)) <= 1 \/ log # <<>>)

(***************************************************************************)
(* Properties of the text utilities                                        *)
(***************************************************************************)
DecimalDigits == {"0", "1", "2", "3", "4", "5", "6", "7", "8", "9"}

DigitPlaces(t) == {k \in 1..Len(t) : t[k] \in DecimalDigits}

SetMax(S) == CHOOSE a \in S : \A b \in S : b <= a

\* the part of t from its first digit to its last digit
NumberPart(t) == SubSeq(t, SetMin(DigitPlaces(t)), SetMax(DigitPlaces(t)))

\* n is an amount with comma thousands separators and a decimal point: one to
\* three digits, groups of a comma and three digits, a point, and decimals
IsAmount(n) ==
    \E d \in 1..Len(n) :
        /\ n[d] = "."
        /\ d < Len(n)
        /\ \A k \in (d + 1)..Len(n) : n[k] \in DecimalDigits
        /\ \E first \in 1..3 :
               /\ first < d
               /\ (d - 1 - first) % 4 = 0
               /\ \A k \in 1..(d - 1) :
                      IF k > first /\ (k - first) % 4 = 1
                      THEN n[k] = ","
                      ELSE n[k] \in DecimalDigits

\* the text's only number is such an amount
IsAmountText(t) == DigitPlaces(t) # {} /\ IsAmount(NumberPart(t))

\* the numeric value of an amount: its whole part and its decimals, without
\* the zeros that end them
AmountValue(n) ==
    LET d == CHOOSE k \in 1..Len(n) : n[k] = "."
        digits == SelectSeq(SubSeq(n, 1, d - 1), LAMBDA c : c \in DecimalDigits)
        lead == IF \A k \in 1..Len(digits) : digits[k] = "0" THEN Len(digits) + 1
                ELSE SetMin({k \in 1..Len(digits) : digits[k] # "0"})
        decimals == SubSeq(n, d + 1, Len(n))
        last == IF \A k \in 1..Len(decimals) : decimals[k] = "0" THEN 0
                ELSE SetMax({k \in 1..Len(decimals) : decimals[k] # "0"})
    IN  [kind |-> "float", whole |-> SubSeq(digits, lead, Len(digits)),
         frac |-> SubSeq(decimals, 1, last)]

\* C16: extract_currency returns None for every text without a decimal digit,
\* and for a text whose only number is an amount written with comma thousands
\* separators and a decimal point it returns the amount's numeric value, the
\* separators removed.
C16_CurrencyValueOrNone ==
    pc = "currency" =>
        /\ DigitPlaces(arg_text) = {} => currency_out.kind = "None"
        /\ IsAmountText(arg_text) => currency_out = AmountValue(NumberPart(arg_text))

\* C16 witness: extract_currency returned 1234.56 for Total: $1,234.56
C16_Witness ==
    /\ pc = "currency"
    /\ arg_text = <<"T","o","t","a","l",":"," ","$","1",",","2","3","4",".","5","6">>
    /\ IsAmountText(arg_text)
    /\ currency_out = [kind |-> "float", whole |-> <<"1", "2", "3", "4">>,
                       frac |-> <<"5", "6">>]

AccentedLetters == {"á", "é", "í", "ó", "ú", "ñ", "Á", "É", "Í", "Ó", "Ú", "Ñ"}

CountOf(t, c) == Cardinality({k \in 1..Len(t) : t[k] = c})

\* C17: clean_text normalizes accented letters to their base letters and
\* collapses every run of whitespace into one space: the result has no
\* combining mark and no accented letter; Café Ñandú becomes Cafe Nandu.
C17_AccentsFoldedToBaseLetters ==
    pc = "cleaned" =>
        /\ \A k \in 1..Len(clean_out) :
               /\ clean_out[k] \notin {CombAcute, CombTilde}
               /\ clean_out[k] \notin AccentedLetters
               /\ clean_out[k] \notin {"\n", "\t"}
               /\ k > 1 => ~(clean_out[k - 1] = " " /\ clean_out[k] = " ")
        /\ arg_text = <<"C","a","f","é"," ","Ñ","a","n","d","ú">> => clean_out = <<"C","a","f","e"," ","N","a","n","d","u">>
        /\ arg_text = <<"T","h","i","s"," "," "," ","i","s"," "," ","a","\n","\n","t","e","s","t"," "," "," ","t","e","x","t">>
               => clean_out = <<"T","h","i","s"," ","i","s"," ","a"," ","t","e","s","t"," ","t","e","x","t">>

\* C18: the OCR corrections of l to 1 and of O to 0 are not applied to full-page
\* text: cleaning leaves every letter l and O of the text in place.
C18_LettersOfWordsUnchanged ==
    pc = "cleaned" =>
        /\ CountOf(clean_out, "l") >= CountOf(arg_text, "l")
        /\ CountOf(clean_out, "O") >= CountOf(arg_text, "O")

(***************************************************************************)
(* Properties of the batch                                                 *)
(***************************************************************************)
ExportOf(stem) == [dir |-> "OUTPUT_DIR", stem |-> stem, suffix |-> ".xlsx"]

\* C19: the batch continues past per-document failures: every document is
\* attempted exactly once, one export file named after the stem is written for
\* each document that does not fail, none for a document whose rendering
\* fails, and no exception of a document ends the loop.
C19_BatchContinuesPastFailures ==
    /\ pc \in {"main", "main_done"}
    /\ attempts = [k \in 1..(doc_i - 1) |-> docs[k].stem]
    /\ \A k \in 1..(doc_i - 1) :
           /\ docs[k].fails = "none" => ExportOf(docs[k].stem) \in files
           /\ docs[k].fails = "render" => ExportOf(docs[k].stem) \notin files
    /\ files \subseteq {ExportOf(docs[k].stem) : k \in 1..(doc_i - 1)}
    /\ pc = "main_done" => doc_i = Len(docs) + 1

\* C19 witness: the batch ended after a document whose rendering failed and a
\* document whose export failed were followed by a document that was exported.
C19_Witness ==
    /\ pc = "main_done"
    /\ \E i, j, k \in 1..Len(docs) :
           /\ i < k /\ j < k
           /\ docs[i].fails = "render"
           /\ docs[j].fails = "export"
           /\ docs[k].fails = "none"
           /\ ExportOf(docs[k].stem) \in files
    /\ Len(attempts) = Len(docs)

\* the rows of the grid in which a cell occurs
RowsHolding(grid, cell) == {k \in 1..Len(grid) : \E j \in 1..Len(grid[k]) : grid[k][j] = cell}

\* the number of times a cell occurs in a list of cells
TimesIn(cs, cell) == Cardinality({j \in 1..Len(cs) : cs[j] = cell})

RECURSIVE TimesInGrid(_, _)
TimesInGrid(grid, cell) ==
    IF grid = <<>> THEN 0 ELSE TimesIn(Head(grid), cell) + TimesInGrid(Tail(grid), cell)

\* C22: _sort_cells partitions its input: each input cell appears in exactly one
\* row of the returned grid, two cells share a row only if their top-y values
\* differ by less than 10, each row is in ascending order of x and the rows are
\* in ascending order of y.
C22_SortCellsPartitions ==
    pc = "sorted" =>
        /\ \A i \in 1..Len(cells) :
               /\ Cardinality(RowsHolding(rows, cells[i])) = 1
               /\ TimesInGrid(rows, cells[i]) = TimesIn(cells, cells[i])
        /\ \A k \in 1..Len(rows) :
               /\ rows[k] # <<>>
               /\ \A i, j \in 1..Len(rows[k]) :
                      /\ rows[k][i][2] - rows[k][j][2] < 10
                      /\ i < j => rows[k][i][1] <= rows[k][j][1]
               /\ k > 1 => rows[k - 1][1][2] < rows[k][1][2]

(***************************************************************************)
(* Properties of the page text and of the whole pipeline                    *)
(***************************************************************************)
\* the pages on which the OCR engine does not raise
ReadablePages == {i \in 1..Len(ocr_out) : ~ocr_out[i].raised}

\* the k-th element of a set of numbers, in ascending order
KthOf(S, k) == CHOOSE x \in S : Cardinality({y \in S : y < x}) = k - 1

RECURSIVE Numeral(_)
Numeral(n) ==
    LET unit == <<"0","1","2","3","4","5","6","7","8","9">>[(n % 10) + 1]
    IN  IF n < 10 THEN <<unit>> ELSE Append(Numeral(n \div 10), unit)

\* the marker that opens the block of page n
MarkerOf(n) == <<"-","-","-","P","Á","G","I","N","A"," ">> \o Numeral(n) \o <<"-","-","-">>

\* the blocks one after the other, a newline between two of them
RECURSIVE BlocksInOrder(_)
BlocksInOrder(bs) ==
    IF bs = <<>> THEN <<>>
    ELSE IF Len(bs) = 1 THEN bs[1]
    ELSE BlocksInOrder(SubSeq(bs, 1, Len(bs) - 1)) \o <<"\n">> \o bs[Len(bs)]

\* C23: the document text is assembled in page order: text_content consists of
\* the blocks of the non-failing pages in ascending page order, each block
\* opening with the marker of that page's own 1-based index; a failing page
\* contributes no block, raises nothing and shifts no later index.
C23_TextInPageOrder ==
    pc \in {"ocr", "ocr_done"} =>
        /\ Len(full_text) = Cardinality({i \in ReadablePages : i <= ocr_i})
        /\ \A k \in 1..Len(full_text) :
               OccursAt(full_text[k], MarkerOf(KthOf(ReadablePages, k)) \o <<"\n">>, 0)
        /\ pc = "ocr_done" =>
               /\ ocr_i = Len(ocr_out)
               /\ text_content = BlocksInOrder(full_text)
               /\ Len(log) = Len(ocr_out) - Cardinality(ReadablePages)

\* C23 witness: the text was assembled from a document whose first page failed
\* and whose later pages were read: it opens with the marker of page 2.
C23_Witness ==
    /\ pc = "ocr_done"
    /\ Len(ocr_out) >= 3
    /\ ocr_out[1].raised
    /\ ReadablePages = 2..Len(ocr_out)
    /\ OccursAt(text_content, MarkerOf(2), 0)
    /\ \E k \in 1..Len(text_content) : OccursAt(text_content, MarkerOf(3), k)

\* C21: through the whole pipeline, every vocabulary section name and every
\* field label that occurs in the raw OCR output of some page is still found:
\* the final record has a section for each such name and a value for each such
\* labelled field.
C21_NamesAndLabelsSurvivePipeline ==
    pc = "sections_done" =>
        \A i \in ReadablePages :
            LET raw == ocr_out[i].text
                rawLines == Split(raw, "\n")
            IN  /\ \A n \in VocabularyNames :
                       OccursCI(raw, n) => DictHas(extracted_data.sections, n)
                /\ \A f \in MetaFields :
                       (\E j \in 1..Len(rawLines) :
                            /\ HasLabel(rawLines[j], f)
                            /\ TrailingValue(rawLines[j], f) # <<>>)
                           => DictGet(extracted_data.metadata, f) # <<>>

(***************************************************************************)
(* Properties of the fence stripping                                       *)
(***************************************************************************)
\* the JSON texts of the model that are objects
JsonObjects == {doc \in DOMAIN JsonLoads : JsonLoads[doc].kind = "dict"}

AllBlank(t, a, b) == \A k \in a..b : t[k] = " "

\* t is the JSON text alone
IsAlone(t, doc) == \E b \in 1..Len(t) :
    /\ t[b] = doc
    /\ AllBlank(t, 1, b - 1)
    /\ AllBlank(t, b + 1, Len(t))

\* t is the JSON text between an opening fence, which is the first fence of t
\* and is followed by the tokens of tag, and a closing fence; any text may
\* come before the opening fence and after the closing one
IsWrapped(t, doc, tag) == \E a, b, c \in 1..Len(t) :
    /\ \A h \in 1..(a - 1) : t[h] # Fence
    /\ t[a] = Fence
    /\ a + Len(tag) < b
    /\ \A k \in 1..Len(tag) : t[a + k] = tag[k]
    /\ AllBlank(t, a + Len(tag) + 1, b - 1)
    /\ t[b] = doc
    /\ b < c
    /\ AllBlank(t, b + 1, c - 1)
    /\ t[c] = Fence

\* C24: fence stripping round-trips: for every JSON object J, a response that
\* is J alone, J between a json-tagged fence and a closing fence, or J between
\* two plain fences, with any text before the opening fence and after the
\* closing fence, is parsed to a payload equal to J, in the LangChain path and
\* in the direct-API path alike.
C24_FenceStrippingRoundTrips ==
    (pc = "ai_update" /\ use_ai /\ ~result.raised) =>
        \A doc \in JsonObjects :
            (\/ IsAlone(result.text, doc)
             \/ IsWrapped(result.text, doc, <<"json">>)
             \/ IsWrapped(result.text, doc, <<>>))
                => enhanced_data = JsonLoads[doc]

====
